---- MODULE Spec2Model ----
(***************************************************************************)
(* Applied-jobs persistence and aggregation of job-apply-app.py:           *)
(* the JSON store applied_jobs.json (append_applied_record,                *)
(* load_applied_df), the in-memory SEARCH_STORE, and the handlers          *)
(* job_results, manual_apply, auto_apply, dashboard and sync_sheet.        *)
(*                                                                         *)
(* Spec      one request at a time: every handler is an `async def` whose  *)
(*           store accesses are synchronous, so under the single event     *)
(*           loop of `uvicorn job-apply-app` a handler's appends run       *)
(*           without interleaving.                                         *)
(* SpecConc  two workers sharing applied_jobs.json, each executing         *)
(*           append_applied_record statement by statement.                 *)
(***************************************************************************)
EXTENDS Integers, Sequences, FiniteSets, TLC

VARIABLES
    APPLIED_STORE,  \* the file applied_jobs.json: [exists, valid, text]
    SEARCH_STORE,   \* search_id -> list of job dicts
    now,            \* wall clock, in whole minutes since the process started
    response,       \* what the last handler returned
    call,           \* history: the last request and the store it found
    appended,       \* history: every record passed to append_applied_record
    faultSeen,      \* history: some storage access has failed
    searches,       \* history: every search, its search_id, keywords and results
    workers         \* SpecConc: per worker, its position in append_applied_record

vars == <<APPLIED_STORE, SEARCH_STORE, now, response, call, appended, faultSeen,
          searches, workers>>

(***************************************************************************)
(* Bounds of the model.                                                    *)
(***************************************************************************)
MaxRecs == 3        \* calls of append_applied_record in a run
MaxSearches == 2    \* searches in a run
MaxClock == 1       \* minute boundaries crossed in a run

(***************************************************************************)
(* Python values.                                                          *)
(***************************************************************************)
None == "<None>"

Truthy(x) == x \notin {None, ""}

\* a or b
Or(a, b) == IF Truthy(a) THEN a ELSE b

\* dict.get(k)
Get(d, k) == IF k \in DOMAIN d THEN d[k] ELSE None

Min(a, b) == IF a <= b THEN a ELSE b

IsPrefix(s, t) == Len(s) <= Len(t) /\ SubSeq(t, 1, Len(s)) = s

(***************************************************************************)
(* datetime.now().strftime("%d-%b-%Y %I:%M %p"): day, 12-hour clock hour,  *)
(* minute and AM/PM; seconds are dropped.  The process starts at 11:59 AM  *)
(* of day 1, so that the clock of a run crosses noon.                      *)
(***************************************************************************)
StartMinute == 11 * 60 + 59

strftime(t) ==
    LET m == StartMinute + t
        h == (m \div 60) % 24
    IN  [d  |-> 1 + (m \div (24 * 60)),
         I  |-> ((h + 11) % 12) + 1,
         M  |-> m % 60,
         p  |-> IF h < 12 THEN "AM" ELSE "PM"]

(***************************************************************************)
(* jooble_search: the upstream reply, remapped; the simulated sample when  *)
(* the call fails or returns nothing.                                      *)
(***************************************************************************)
UpstreamError == [ok |-> FALSE, jobs |-> << >>]

raw1 == [title |-> "Data Analyst", company |-> "Acme Analytics",
         location |-> "Mumbai", salary |-> "10 LPA", link |-> "https://example.com/a"]

raw2 == [position |-> "Data Analyst", employer |-> "InsightWorks", city |-> "mumbai"]

raw3 == [title |-> "", url |-> "https://example.com/c"]

\* what POST https://jooble.org/api/<key> may answer: a failure, or data["jobs"]
UpstreamReplies ==
    {UpstreamError} \cup
    {[ok |-> TRUE, jobs |-> js] : js \in {<< >>, <<raw2, raw3, raw1>>}}

Keywords == {"data"}

limit == 40

SimulatedSample ==
    << [title |-> "Data Analyst", company |-> "Acme Analytics", location |-> "Bengaluru",
        salary |-> "10-15 LPA", apply_link |-> "https://example.com/1"],
       [title |-> "Business Intelligence Analyst", company |-> "InsightWorks",
        location |-> "Mumbai", salary |-> "Not disclosed",
        apply_link |-> "https://example.com/2"] >>

Remap(j) ==
    [title      |-> Or(Or(Get(j, "title"), Get(j, "position")), "Unknown"),
     company    |-> Or(Or(Get(j, "company"), Get(j, "employer")), "Unknown"),
     location   |-> Or(Or(Get(j, "location"), Get(j, "city")), "Unknown"),
     salary     |-> Or(Or(Get(j, "salary"), Get(j, "compensation")), "Not disclosed"),
     apply_link |-> Or(Or(Get(j, "link"), Get(j, "url")), "#")]

jooble_search(reply) ==
    LET jobs    == IF reply.ok THEN reply.jobs ELSE << >>
        results == [i \in 1..Min(Len(jobs), limit) |-> Remap(jobs[i])]
    IN  IF results = << >> THEN SimulatedSample ELSE results

(***************************************************************************)
(* The applied-jobs file.  Its text is a JSON array of objects, an object  *)
(* a list of (key, value) pairs in the order json.dump writes them.        *)
(***************************************************************************)
Columns == <<"Applied On", "Company", "Job Title", "Location", "Keyword">>

NoFile == [exists |-> FALSE, valid |-> FALSE, text |-> << >>]

\* a file json.load or arr.append fails on
Unparseable == [exists |-> TRUE, valid |-> FALSE, text |-> << >>]

Record(ts, company, title, location, keyword) ==
    [k \in {Columns[i] : i \in 1..Len(Columns)} |->
        CASE k = "Applied On" -> ts
          [] k = "Company"    -> company
          [] k = "Job Title"  -> title
          [] k = "Location"   -> location
          [] OTHER            -> keyword]

NoRecord == Record(strftime(0), "", "", "", "")

\* json.dump(arr, f)
json_dump(arr) ==
    [i \in 1..Len(arr) |-> [c \in 1..Len(Columns) |-> <<Columns[c], arr[i][Columns[c]]>>]]

\* json.load(f) of a parseable text
json_load(text) ==
    [i \in 1..Len(text) |->
        [k \in {text[i][c][1] : c \in 1..Len(text[i])} |->
            LET at == CHOOSE c \in 1..Len(text[i]) : text[i][c][1] = k
            IN  text[i][at][2]]]

Faults == {"none", "io"}

\* the body of the try block: TRUE when it raises before anything is written
Raises(file, fault) == fault = "io" \/ (file.exists /\ ~file.valid)

WriteFront(arr, rec) == <<rec>> \o arr

AppendUnique(arr, rec) ==
    IF \E i \in 1..Len(arr) : arr[i] = rec THEN arr ELSE Append(arr, rec)

\* arr.append(rec)
list_append(arr, rec) == Append(arr, rec)

loaded_nothing(file) == << >>

\* arr = []; if os.path.exists(APPLIED_STORE): arr = json.load(f)
loaded(file) == IF file.exists THEN json_load(file.text) ELSE << >>

\* the file after open(APPLIED_STORE, "w") and json.dump(arr, f)
rewritten(arr) == [exists |-> TRUE, valid |-> TRUE, text |-> json_dump(arr)]

append_applied_record(file, rec, fault) ==
    IF Raises(file, fault)
    THEN file
    ELSE rewritten(list_append(loaded(file), rec))

\* pd.DataFrame(columns=[...]); raised: an exception left the function
EmptyFrame == [columns |-> Columns, rows |-> << >>, raised |-> FALSE]

load_applied_df_raising(file, fault) ==
    IF ~file.exists
    THEN EmptyFrame
    ELSE IF Raises(file, fault)
         THEN [columns |-> Columns, rows |-> << >>, raised |-> TRUE]
         ELSE [columns |-> Columns, rows |-> json_load(file.text), raised |-> FALSE]

load_applied_df(file, fault) ==
    IF ~file.exists
    THEN EmptyFrame
    ELSE IF Raises(file, fault)
         THEN EmptyFrame
         ELSE [columns |-> Columns, rows |-> json_load(file.text), raised |-> FALSE]

\* the records a fault-free load of the file returns
Stored == load_applied_df(APPLIED_STORE, "none").rows

(***************************************************************************)
(* Series.value_counts(): one (value, count) pair per distinct value,      *)
(* collected in order of first occurrence, then sorted by count,           *)
(* descending, with sort_values' default kind ("quicksort"), which is not  *)
(* a stable sort: the order of equal counts is whatever the numpy build    *)
(* produces.  value_counts is the set of the results a build can produce.  *)
(***************************************************************************)
Column(df, c) == [i \in 1..Len(df.rows) |-> df.rows[i][c]]

RECURSIVE Uniques(_)
Uniques(s) ==
    IF s = << >>
    THEN << >>
    ELSE LET r == Uniques(SubSeq(s, 1, Len(s) - 1))
             x == s[Len(s)]
         IN  IF \E i \in 1..Len(r) : r[i] = x THEN r ELSE Append(r, x)

CountOf(s, v) == Cardinality({i \in 1..Len(s) : s[i] = v})

\* the hash table's (value, count) pairs, in order of first occurrence
Counted(s) ==
    LET u == Uniques(s)
    IN  [i \in 1..Len(u) |-> [value |-> u[i], count |-> CountOf(s, u[i])]]

Orders(n) == {f \in [1..n -> 1..n] : \A i, j \in 1..n : f[i] = f[j] => i = j}

Descending(q) == \A i, j \in 1..Len(q) : i < j => q[i].count >= q[j].count

value_counts_unsorted(s) == {Counted(s)}

value_counts(s) ==
    LET p == Counted(s)
    IN  {q \in {[i \in 1..Len(p) |-> p[f[i]]] : f \in Orders(Len(p))} : Descending(q)}

\* the result a stable sort would give: equal counts in order of first occurrence
StableCounts(s) ==
    LET p == Counted(s)
    IN  CHOOSE q \in value_counts(s) :
            \A i, j \in 1..Len(p) :
                (i < j /\ p[i].count = p[j].count) =>
                    \E a, b \in 1..Len(q) : a < b /\ q[a] = p[i] /\ q[b] = p[j]

(***************************************************************************)
(* The state after the module is loaded, with no applied_jobs.json yet.    *)
(***************************************************************************)
\* a worker: pc, its place in append_applied_record; queue, the records its
\* handler has still to append; arr, the list it loaded; last, history: the
\* outcome of its latest append, the file that append read and its record
Idle == [pc |-> "idle", queue |-> << >>, arr |-> << >>,
         last |-> [status |-> "none", snapshot |-> NoFile, rec |-> NoRecord]]

Workers == {1, 2}

\* op: the handler; at: the clock when it started; known: search_id was in
\* SEARCH_STORE; faults: the fault met by each storage access, in order; pre: the
\* file it found; first: the index in `appended` of the first record it passed on
NoCall == [op |-> "none", at |-> 0, search_id |-> 0, known |-> FALSE,
           faults |-> << >>, pre |-> NoFile, first |-> 0]

NoResponse == [status |-> 0, applied_table |-> << >>, roles |-> << >>, city |-> << >>]

GoogleConfigs == {"unconfigured", "no_gspread", "configured"}

Init ==
    /\ APPLIED_STORE = NoFile
    /\ SEARCH_STORE = << >>
    /\ now = 0
    /\ response = NoResponse
    /\ call = NoCall
    /\ appended = << >>
    /\ faultSeen = FALSE
    /\ searches = << >>
    /\ workers = [w \in Workers |-> Idle]

\* a response with no dashboard in it
Plain(status) == [NoResponse EXCEPT !.status = status]

(***************************************************************************)
(* The clock crosses a minute boundary.                                    *)
(***************************************************************************)
Tick ==
    /\ now < MaxClock
    /\ now' = now + 1
    /\ UNCHANGED <<APPLIED_STORE, SEARCH_STORE, response,
                   call, appended, faultSeen, searches, workers>>

(***************************************************************************)
(* POST /job_results                                                       *)
(***************************************************************************)
\* str(uuid.uuid4()): an identifier no earlier search has
uuid4(used) == CHOOSE i \in 1..(Cardinality(used) + 1) : i \notin used

job_results(keywords, reply) ==
    /\ Cardinality(DOMAIN SEARCH_STORE) < MaxSearches
    /\ LET jobs      == jooble_search(reply)
           search_id == uuid4(DOMAIN SEARCH_STORE)
       IN  /\ SEARCH_STORE' = [s \in DOMAIN SEARCH_STORE \cup {search_id} |->
                                  IF s = search_id THEN jobs ELSE SEARCH_STORE[s]]
           /\ searches' = Append(searches, [search_id |-> search_id,
                                             keywords |-> keywords, jobs |-> jobs])
           /\ call' = [NoCall EXCEPT !.op = "job_results", !.search_id = search_id,
                                     !.pre = APPLIED_STORE]
    /\ response' = Plain(200)
    /\ UNCHANGED <<APPLIED_STORE, now, appended, faultSeen,
                   workers>>

(***************************************************************************)
(* POST /manual_apply                                                      *)
(***************************************************************************)
ManualForms ==
    {[title |-> "Data Analyst", company |-> "Acme Analytics", location |-> "Mumbai"]}

ManualRecord(form, t) == Record(strftime(t), form.company, form.title, form.location, "")

manual_apply(form, fault) ==
    /\ Len(appended) < MaxRecs
    /\ LET rec == ManualRecord(form, now)
       IN  /\ APPLIED_STORE' = append_applied_record(APPLIED_STORE, rec, fault)
           /\ appended' = Append(appended, rec)
    /\ faultSeen' = (faultSeen \/ Raises(APPLIED_STORE, fault))
    /\ call' = [NoCall EXCEPT !.op = "manual_apply", !.faults = <<fault>>, !.at = now,
                              !.pre = APPLIED_STORE, !.first = Len(appended) + 1]
    /\ response' = Plain(303)
    /\ UNCHANGED <<SEARCH_STORE, now, searches, workers>>

(***************************************************************************)
(* POST /auto_apply                                                        *)
(***************************************************************************)
AutoRecordStampedLate(ts, t, j) == Record(strftime(t), j.company, j.title, j.location, "")

\* the dict built for job j in the loop; ts was taken before the loop, t is the
\* clock when the dict is built
AutoRecord(ts, t, j) == Record(ts, j.company, j.title, j.location, "")

\* the clock at iteration i, when it crosses a minute before iteration tickAt
ClockAt(t, tickAt, i) == IF tickAt # 0 /\ i >= tickAt THEN t + 1 ELSE t

AutoRecords(jobs, t, tickAt) ==
    [i \in 1..Len(jobs) |-> AutoRecord(strftime(t), ClockAt(t, tickAt, i), jobs[i])]

RECURSIVE ApplyLoopAbort(_, _, _, _)
ApplyLoopAbort(file, recs, faults, i) ==
    IF i > Len(recs) \/ Raises(file, faults[i])
    THEN file
    ELSE ApplyLoopAbort(append_applied_record(file, recs[i], faults[i]), recs, faults, i + 1)

\* for j in jobs: append_applied_record(rec)
RECURSIVE ApplyLoop(_, _, _, _)
ApplyLoop(file, recs, faults, i) ==
    IF i > Len(recs)
    THEN file
    ELSE ApplyLoop(append_applied_record(file, recs[i], faults[i]), recs, faults, i + 1)

\* the store after each iteration of the loop: RaisedAt[i] is whether append i raised
RECURSIVE FileAfter(_, _, _, _)
FileAfter(file, recs, faults, i) ==
    IF i = 0 THEN file
    ELSE append_applied_record(FileAfter(file, recs, faults, i - 1), recs[i], faults[i])

RaisedAt(file, recs, faults, i) == Raises(FileAfter(file, recs, faults, i - 1), faults[i])

lookup_default(store, search_id) ==
    IF search_id \in DOMAIN store THEN store[search_id] ELSE SimulatedSample

\* SEARCH_STORE.get(search_id)
lookup(store, search_id) ==
    IF search_id \in DOMAIN store THEN store[search_id] ELSE << >>

after_pop(store, search_id) == [s \in DOMAIN store \ {search_id} |-> store[s]]

\* SEARCH_STORE after SEARCH_STORE.get(search_id): get leaves the dict alone
after_get(store, search_id) == store

SearchIds == 1..(MaxSearches + 1)

auto_apply_rejected(search_id) ==
    /\ lookup(SEARCH_STORE, search_id) = << >>
    /\ response' = Plain(400)
    /\ call' = [NoCall EXCEPT !.op = "auto_apply", !.search_id = search_id,
                              !.known = search_id \in DOMAIN SEARCH_STORE,
                              !.pre = APPLIED_STORE]
    /\ SEARCH_STORE' = after_get(SEARCH_STORE, search_id)
    /\ UNCHANGED <<APPLIED_STORE, now, appended, faultSeen, searches, workers>>

auto_apply_accepted(search_id, faults, tickAt) ==
    LET jobs == lookup(SEARCH_STORE, search_id)
        recs == AutoRecords(jobs, now, tickAt)
    IN  /\ jobs # << >>
        /\ Len(faults) = Len(jobs)
        /\ tickAt <= Len(jobs)
        /\ Len(appended) + Len(jobs) <= MaxRecs
        /\ tickAt # 0 => now < MaxClock
        /\ APPLIED_STORE' = ApplyLoop(APPLIED_STORE, recs, faults, 1)
        /\ appended' = appended \o recs
        /\ faultSeen' = (faultSeen \/ \E i \in 1..Len(recs) :
                                         RaisedAt(APPLIED_STORE, recs, faults, i))
        /\ now' = IF tickAt # 0 THEN now + 1 ELSE now
        /\ response' = Plain(303)
        /\ call' = [NoCall EXCEPT !.op = "auto_apply", !.search_id = search_id,
                                  !.known = search_id \in DOMAIN SEARCH_STORE,
                                  !.faults = faults, !.at = now,
                                  !.pre = APPLIED_STORE, !.first = Len(appended) + 1]
        /\ SEARCH_STORE' = after_get(SEARCH_STORE, search_id)
        /\ UNCHANGED <<searches, workers>>

auto_apply(search_id, faults, tickAt) ==
    \/ auto_apply_rejected(search_id)
    \/ auto_apply_accepted(search_id, faults, tickAt)

(***************************************************************************)
(* GET /dashboard                                                          *)
(***************************************************************************)
dashboard(fault) ==
    LET df == load_applied_df(APPLIED_STORE, fault)
    IN  /\ IF df.raised
           THEN response' = Plain(500)
           ELSE IF df.rows = << >>
                THEN response' = Plain(200)
                ELSE \E r \in value_counts(Column(df, "Job Title")),
                        c \in value_counts(Column(df, "Location")) :
                         response' = [status |-> 200, applied_table |-> df.rows,
                                      roles |-> r, city |-> c]
        /\ faultSeen' = (faultSeen \/ Raises(APPLIED_STORE, fault))
        /\ call' = [NoCall EXCEPT !.op = "dashboard", !.faults = <<fault>>,
                                  !.pre = APPLIED_STORE]
        /\ UNCHANGED <<APPLIED_STORE, SEARCH_STORE, now,
                       appended, searches, workers>>

(***************************************************************************)
(* POST /sync_sheet                                                        *)
(***************************************************************************)
SheetFailures == {"none", "gspread"}

\* google: the GOOGLE_* environment and whether gspread was imported; failure: an
\* exception of the gspread calls.  The rows are sent to the remote sheet, which no
\* handler reads.
sync_sheet(google, fault, failure) ==
    LET df   == load_applied_df(APPLIED_STORE, fault)
        read == google = "configured"
    IN  /\ response' =
               IF google = "unconfigured" THEN Plain(400)
               ELSE IF google = "no_gspread" THEN Plain(500)
               ELSE IF df.rows = << >> THEN Plain(200)
               ELSE IF failure = "none" THEN Plain(303)
               ELSE Plain(500)
        /\ faultSeen' = (faultSeen \/ (read /\ Raises(APPLIED_STORE, fault)))
        /\ call' = [NoCall EXCEPT !.op = "sync_sheet", !.pre = APPLIED_STORE]
        /\ UNCHANGED <<APPLIED_STORE, SEARCH_STORE, now, appended, searches, workers>>

(***************************************************************************)
(* One request at a time.                                                  *)
(***************************************************************************)
Next ==
    \/ Tick
    \/ \E keywords \in Keywords, reply \in UpstreamReplies : job_results(keywords, reply)
    \/ \E form \in ManualForms, fault \in Faults : manual_apply(form, fault)
    \/ \E search_id \in SearchIds :
          \E faults \in [1..Len(lookup(SEARCH_STORE, search_id)) -> Faults],
             tickAt \in 0..Len(lookup(SEARCH_STORE, search_id)) :
              auto_apply(search_id, faults, tickAt)
    \/ \E fault \in Faults : dashboard(fault)
    \/ \E google \in GoogleConfigs :
          \E fault \in IF google = "configured" THEN Faults ELSE {"none"},
             failure \in IF google = "configured" THEN SheetFailures ELSE {"none"} :
              sync_sheet(google, fault, failure)

Spec == Init /\ [][Next]_vars

(***************************************************************************)
(* Two workers on the same applied_jobs.json.  A worker takes an apply     *)
(* request, and runs append_applied_record for each of its records one     *)
(* statement at a time: the read (lines 128-130), open(APPLIED_STORE, "w") *)
(* which empties the file (line 132), json.dump and the close (line 133).  *)
(* An exception at the read drops the record (line 134).                   *)
(***************************************************************************)
Busy(w) == workers[w].pc # "idle"

\* the worker after the append of the head of its queue ended
Ended(wk, status, snapshot) ==
    [pc    |-> IF Len(wk.queue) > 1 THEN "read" ELSE "idle",
     queue |-> Tail(wk.queue),
     arr   |-> << >>,
     last  |-> [status |-> status, snapshot |-> snapshot, rec |-> Head(wk.queue)]]

worker_manual_apply(w, form) ==
    /\ ~Busy(w)
    /\ Len(appended) < MaxRecs
    /\ LET rec == ManualRecord(form, now)
       IN  /\ workers' = [workers EXCEPT ![w].pc = "read", ![w].queue = <<rec>>]
           /\ appended' = Append(appended, rec)
    /\ UNCHANGED <<APPLIED_STORE, SEARCH_STORE, now, response, call, faultSeen,
                   searches>>

worker_auto_apply(w, search_id) ==
    LET jobs == lookup(SEARCH_STORE, search_id)
        recs == AutoRecords(jobs, now, 0)
    IN  /\ ~Busy(w)
        /\ jobs # << >>
        /\ Len(appended) + Len(jobs) <= MaxRecs
        /\ workers' = [workers EXCEPT ![w].pc = "read", ![w].queue = recs]
        /\ appended' = appended \o recs
        /\ UNCHANGED <<APPLIED_STORE, SEARCH_STORE, now, response, call, faultSeen,
                       searches>>

worker_read(w) ==
    /\ workers[w].pc = "read"
    /\ IF Raises(APPLIED_STORE, "none")
       THEN /\ workers' = [workers EXCEPT ![w] = Ended(workers[w], "dropped", APPLIED_STORE)]
            /\ faultSeen' = TRUE
       ELSE /\ workers' = [workers EXCEPT ![w].pc = "open",
                                          ![w].arr = loaded(APPLIED_STORE),
                                          ![w].last = [status |-> "reading",
                                                       snapshot |-> APPLIED_STORE,
                                                       rec |-> Head(workers[w].queue)]]
            /\ UNCHANGED faultSeen
    /\ UNCHANGED <<APPLIED_STORE, SEARCH_STORE, now, response, call, appended, searches>>

worker_open(w) ==
    /\ workers[w].pc = "open"
    /\ APPLIED_STORE' = Unparseable
    /\ workers' = [workers EXCEPT ![w].pc = "dump"]
    /\ UNCHANGED <<SEARCH_STORE, now, response, call, appended, faultSeen, searches>>

\* When the other worker has written since this one emptied the file, both hold
\* the file open: this worker's text replaces the other's from the start of the
\* file, and what is left of a longer text behind it makes the file unparseable.
worker_dump(w) ==
    /\ workers[w].pc = "dump"
    /\ LET mine == rewritten(list_append(workers[w].arr, Head(workers[w].queue)))
       IN  APPLIED_STORE' \in IF APPLIED_STORE.valid THEN {mine, Unparseable} ELSE {mine}
    /\ workers' = [workers EXCEPT ![w] = Ended(workers[w], "written", workers[w].last.snapshot)]
    /\ UNCHANGED <<SEARCH_STORE, now, response, call, appended, faultSeen, searches>>

NextConc ==
    \/ \E keywords \in Keywords, reply \in UpstreamReplies : job_results(keywords, reply)
    \/ \E w \in Workers, form \in ManualForms : worker_manual_apply(w, form)
    \/ \E w \in Workers, search_id \in SearchIds : worker_auto_apply(w, search_id)
    \/ \E w \in Workers : worker_read(w)
    \/ \E w \in Workers : worker_open(w)
    \/ \E w \in Workers : worker_dump(w)

SpecConc == Init /\ [][NextConc]_vars

(***************************************************************************)
(* What the last call found and did.                                       *)
(***************************************************************************)
Rows(file) == IF file.exists /\ file.valid THEN json_load(file.text) ELSE << >>

PreRows == Rows(call.pre)

\* the job list of the session the last auto-apply named
CallJobs == lookup(SEARCH_STORE, call.search_id)

\* the records the last apply call passed to append_applied_record
CallRecs == SubSeq(appended, call.first, Len(appended))

Applied == call.op = "auto_apply" /\ call.known

\* the keywords of the search that created search_id
KeywordsOf(search_id) ==
    LET i == CHOOSE i \in 1..Len(searches) : searches[i].search_id = search_id
    IN  searches[i].keywords

NoFault == \A i \in 1..Len(call.faults) : call.faults[i] = "none"

RECURSIVE Kept(_, _)
\* the records of recs whose append met no fault, in order
Kept(recs, faults) ==
    IF recs = << >>
    THEN << >>
    ELSE LET rest == Kept(Tail(recs), Tail(faults))
         IN  IF Head(faults) = "none" THEN <<Head(recs)>> \o rest ELSE rest

(***************************************************************************)
(* C1  Append-then-load: from a store with no prior writes and with no     *)
(* storage failure, load_applied_df returns exactly the records passed to  *)
(* append_applied_record, in the order they were passed.                   *)
(***************************************************************************)
AppendThenLoad ==
    ~faultSeen => load_applied_df(APPLIED_STORE, "none").rows = appended

AppendThenLoadWitness ==
    /\ ~faultSeen
    /\ Len(appended) = 3
    /\ appended[1] # appended[3]
    /\ load_applied_df(APPLIED_STORE, "none").rows = appended

(***************************************************************************)
(* C2  Unknown session: auto_apply with a search_id that is not in         *)
(* SEARCH_STORE answers 400 and leaves the file as it found it, passing no *)
(* record to append_applied_record.                                        *)
(***************************************************************************)
UnknownSession ==
    (call.op = "auto_apply" /\ ~call.known) =>
        /\ response.status = 400
        /\ APPLIED_STORE = call.pre
        /\ call.first = 0

UnknownSessionWitness ==
    /\ call.op = "auto_apply"
    /\ ~call.known
    /\ DOMAIN SEARCH_STORE # {}
    /\ Len(Stored) > 0
    /\ response.status = 400

(***************************************************************************)
(* C3  Bulk apply: auto_apply on a search_id an earlier search created     *)
(* answers 303 and, when no append meets a fault, adds one record per job  *)
(* of the session, in session order, after the records already stored, all *)
(* carrying the timestamp taken when the call started.                     *)
(***************************************************************************)
BulkApply ==
    Applied =>
        /\ response.status = 303
        /\ Len(CallRecs) = Len(CallJobs)
        /\ NoFault =>
               /\ Stored = PreRows \o CallRecs
               /\ \A i \in 1..Len(CallJobs) :
                     /\ CallRecs[i]["Job Title"] = CallJobs[i].title
                     /\ CallRecs[i]["Company"] = CallJobs[i].company
                     /\ CallRecs[i]["Location"] = CallJobs[i].location
                     /\ CallRecs[i]["Applied On"] = strftime(call.at)

BulkApplyWitness ==
    /\ Applied
    /\ NoFault
    /\ Len(CallJobs) = 3
    /\ now > call.at
    /\ Len(Stored) = 3

(***************************************************************************)
(* C4  Keyword: every record auto_apply adds carries the keywords of the   *)
(* search that produced the job, and a record manual_apply adds carries an *)
(* empty keyword.                                                          *)
(***************************************************************************)
KeywordRecorded ==
    /\ Applied =>
          \A i \in 1..Len(CallRecs) : CallRecs[i]["Keyword"] = KeywordsOf(call.search_id)
    /\ call.op = "manual_apply" =>
          \A i \in 1..Len(CallRecs) : CallRecs[i]["Keyword"] = ""

DegradedRead ==
    call.op = "dashboard" =>
        /\ response.status = 200
        /\ (~call.pre.exists \/ ~call.pre.valid \/ call.faults = <<"io">>) =>
               /\ response.applied_table = << >>
               /\ response.roles = << >>
               /\ response.city = << >>

DegradedReadWitness ==
    /\ call.op = "dashboard"
    /\ call.faults = <<"io">>
    /\ Len(PreRows) > 0
    /\ response.status = 200
    /\ response.applied_table = << >>

(***************************************************************************)
(* C7  Sessions are read-only: at every point after a search,              *)
(* SEARCH_STORE.get of its search_id returns the result list of that       *)
(* search, whatever searches and applies came after it.                    *)
(***************************************************************************)
SessionsReadOnly ==
    \A i \in 1..Len(searches) :
        /\ searches[i].search_id \in DOMAIN SEARCH_STORE
        /\ lookup(SEARCH_STORE, searches[i].search_id) = searches[i].jobs

SessionsReadOnlyWitness ==
    /\ Applied
    /\ Len(searches) = 2
    /\ searches[1].jobs # searches[2].jobs
    /\ call.search_id = searches[1].search_id
    /\ Len(Stored) > 0
    /\ lookup(SEARCH_STORE, call.search_id) = searches[1].jobs

(***************************************************************************)
(* C8  Aggregation.  As claimed: the dashboard's counts are the pairs      *)
(* (value, count), by count descending, equal counts in order of first     *)
(* occurrence.                                                             *)
(***************************************************************************)
Shown == call.op = "dashboard" /\ response.applied_table # << >>

Titles == [i \in 1..Len(response.applied_table) |-> response.applied_table[i]["Job Title"]]

Cities == [i \in 1..Len(response.applied_table) |-> response.applied_table[i]["Location"]]

Aggregates(q, s) ==
    /\ \A i, j \in 1..Len(q) : q[i].value = q[j].value => i = j
    /\ {q[i].value : i \in 1..Len(q)} = {s[i] : i \in 1..Len(s)}
    /\ \A i \in 1..Len(q) : q[i].count = Cardinality({k \in 1..Len(s) : s[k] = q[i].value})
    /\ \A i \in 1..Len(q) : \A j \in 1..Len(q) : i < j => q[i].count >= q[j].count

FirstFault == CHOOSE i \in 1..Len(call.faults) :
                  /\ call.faults[i] # "none"
                  /\ \A j \in 1..(i - 1) : call.faults[j] = "none"

SameRead(w, v) ==
    /\ w # v
    /\ workers[w].last.status = "written"
    /\ workers[v].last.status = "written"
    /\ workers[w].last.snapshot = workers[v].last.snapshot

LostUpdate ==
    \A w, v \in Workers :
        (SameRead(w, v) /\ APPLIED_STORE.valid) =>
            LET read == Rows(workers[w].last.snapshot)
            IN  \/ Stored = Append(read, workers[w].last.rec)
                \/ Stored = Append(read, workers[v].last.rec)

LostUpdateWitness ==
    \E w, v \in Workers :
        /\ SameRead(w, v)
        /\ ~Busy(w)
        /\ ~Busy(v)
        /\ workers[w].last.rec # workers[v].last.rec
        /\ workers[w].last.snapshot.exists
        /\ Stored = Append(Rows(workers[w].last.snapshot), workers[v].last.rec)
        /\ \A i \in 1..Len(Stored) : Stored[i] # workers[w].last.rec

====
